---- MODULE Spec2Model ----
(***************************************************************************)
(* State machine of the screen-share page component (src/src/App.tsx):     *)
(* the React state and refs of App, the relay (socket.io) connection, the  *)
(* RTCPeerConnection objects it creates and the captured media streams.    *)
(* One action per event handler; a handler that awaits is split at its     *)
(* awaits into a first step and continuations kept in "tasks".             *)
(***************************************************************************)
EXTENDS Integers, Sequences, FiniteSets, TLC

\* Bounds of the model.
MaxPC == 2        \* RTCPeerConnection objects alive (or still referenced) at once
MaxStream == 2    \* capture requests / captured streams alive at once
MaxTask == 1      \* handler continuations suspended at an await at once
MaxSteps == 9     \* events handled in one run

Rooms == {"r1"}
NoRoom == ""                 \* useState<string>('')
RoomVals == Rooms \cup {NoRoom}
NoField == "-"               \* a relay message without a roomId field
Counts == {0, 1}             \* the counts an available-count message carries

PcIds == 1..MaxPC
StreamIds == 1..MaxStream

VARIABLES
    status,            \* useState status
    isSharing,         \* useState isSharing
    isViewing,         \* useState isViewing
    roomId,            \* useState roomId (the value of the last committed render)
    urlRoom,           \* the page's 'room' query parameter ("" when absent)
    availableCount,    \* useState availableCount
    availableRooms,    \* useState availableRooms
    peerConnectionRef, \* peerConnectionRef.current: 0 is null, else a PcIds
    localStreamRef,    \* localStreamRef.current: 0 is null, else a StreamIds
    pcs,               \* the RTCPeerConnection objects
    streams,           \* the capture requests and captured streams
    remoteBound,       \* the remote <video> exists and has a srcObject
    sock,              \* the relay connection ("closed" once the cleanup disconnected it)
    reconnected,       \* the current relay connection was re-established after a drop
    reconnectDue,      \* a 'reconnect' event is due on the socket
    snapshotReqs,      \* get-available / get-rooms sent by connect+reconnect since the last drop
    tasks,             \* handler continuations suspended at an await
    emitted,           \* relay messages emitted by the last step, in order
    last,              \* the handler the last step ran, and its input
    steps              \* events handled so far

uiVars == <<status, isSharing, isViewing, roomId, urlRoom, availableCount, availableRooms>>
rtcVars == <<peerConnectionRef, localStreamRef, pcs, streams, remoteBound>>
relayVars == <<sock, reconnected, reconnectDue, snapshotReqs>>
vars == <<uiVars, rtcVars, relayVars, tasks, emitted, last, steps>>

StatusVals == {"idle", "connected-to-signaling", "sharing", "negotiating",
               "media-connected", "disconnected"}

----------------------------------------------------------------------------
\* Helpers

Msg(ev, room) == [ev |-> ev, roomId |-> room]

Did(op, room) == [op |-> op, room |-> room]

\* A handler ran: one more event of the run is handled.  The component is
\* followed until it unmounts.
Ran(op, room) ==
    /\ steps < MaxSteps
    /\ sock # "closed"
    /\ steps' = steps + 1
    /\ last' = Did(op, room)

\* A fresh RTCPeerConnection slot, and what a closed one leaves behind.
FreePc == [st |-> "free", init |-> FALSE, room |-> NoRoom, sig |-> "new",
           neg |-> FALSE, track |-> FALSE, conn |-> "new"]

ClosedPc == [FreePc EXCEPT !.st = "closed"]

FreeStream == [st |-> "free", room |-> NoRoom]

Min(S) == CHOOSE x \in S : \A y \in S : x <= y

\* The slot a new RTCPeerConnection takes: one that holds no open session and
\* that no suspended continuation still refers to; 0 when the bound is reached.
NewPcId ==
    LET avail == {p \in PcIds : pcs[p].st # "open"
                                /\ \A t \in tasks : t.pc # p /\ t.made # p}
    IN  IF avail = {} THEN 0 ELSE Min(avail)

NewStreamId ==
    LET avail == {i \in StreamIds : streams[i].st = "free"}
    IN  IF avail = {} THEN 0 ELSE Min(avail)

\* The remote <video> is rendered only under this condition; React drops the
\* element, and with it its srcObject, in the commit that makes it false.
RemoteRendered(viewing, st) == viewing /\ st = "media-connected"

\* The commit after a handler that binds nothing to the remote <video>.
Commit == remoteBound' = (remoteBound /\ RemoteRendered(isViewing', status'))

OpenPcs == {p \in PcIds : pcs[p].st = "open"}
LiveStreams == {i \in StreamIds : streams[i].st = "live"}

----------------------------------------------------------------------------
\* The state after the mount effect has run.

Init ==
    /\ status = "idle"
    /\ isSharing = FALSE
    /\ isViewing = FALSE
    /\ urlRoom \in RoomVals
    /\ roomId = urlRoom
    /\ availableCount = 0
    /\ availableRooms = {}
    /\ peerConnectionRef = 0
    /\ localStreamRef = 0
    /\ pcs = [p \in PcIds |-> FreePc]
    /\ streams = [i \in StreamIds |-> FreeStream]
    /\ remoteBound = FALSE
    /\ sock = "opening"
    /\ reconnected = FALSE
    /\ reconnectDue = FALSE
    /\ snapshotReqs = [avail |-> 0, rooms |-> 0]
    /\ tasks = {}
    /\ emitted = <<>>
    /\ last = Did("mount", NoRoom)
    /\ steps = 0

----------------------------------------------------------------------------
\* The relay connection's own events (App.tsx 43-83)

SnapshotRequests == <<Msg("get-available", NoField), Msg("get-rooms", NoField)>>

Counted(n) == IF n < 2 THEN n + 1 ELSE 2

\* socketInstance.on('connect'): the connection is established, for the first
\* time, after a drop (the library reconnects by itself) or after a retry.
OnConnect ==
    /\ sock \in {"opening", "lost"}
    /\ sock' = "connected"
    /\ reconnected' = (sock = "lost")
    /\ reconnectDue' = (sock = "lost")
    /\ snapshotReqs' = [avail |-> 1, rooms |-> 1]
    /\ status' = "connected-to-signaling"
    /\ emitted' = SnapshotRequests
    /\ Ran("connect", NoRoom)
    /\ UNCHANGED <<isSharing, isViewing, roomId, urlRoom, availableCount, availableRooms,
                   peerConnectionRef, localStreamRef, pcs, streams, tasks>>
    /\ Commit

\* socketInstance.on('connect_error'): socketInstance.connected is false here.
OnConnectError ==
    /\ sock \in {"opening", "lost"}
    /\ status' = "disconnected"
    /\ emitted' = <<>>
    /\ Ran("connect_error", NoRoom)
    /\ UNCHANGED <<isSharing, isViewing, roomId, urlRoom, availableCount, availableRooms,
                   peerConnectionRef, localStreamRef, pcs, streams, tasks, relayVars>>
    /\ Commit

\* socketInstance.on('connect_timeout')
OnConnectTimeout ==
    /\ sock \in {"opening", "lost"}
    /\ status' = "disconnected"
    /\ emitted' = <<>>
    /\ Ran("connect_timeout", NoRoom)
    /\ UNCHANGED <<isSharing, isViewing, roomId, urlRoom, availableCount, availableRooms,
                   peerConnectionRef, localStreamRef, pcs, streams, tasks, relayVars>>
    /\ Commit

\* socketInstance.on('reconnect_attempt')
OnReconnectAttempt ==
    /\ sock = "lost"
    /\ status' = "negotiating"
    /\ emitted' = <<>>
    /\ Ran("reconnect_attempt", NoRoom)
    /\ UNCHANGED <<isSharing, isViewing, roomId, urlRoom, availableCount, availableRooms,
                   peerConnectionRef, localStreamRef, pcs, streams, tasks, relayVars>>
    /\ Commit

\* socketInstance.on('reconnect_error'): logs only.
OnReconnectError ==
    /\ sock = "lost"
    /\ emitted' = <<>>
    /\ Ran("reconnect_error", NoRoom)
    /\ UNCHANGED <<uiVars, rtcVars, relayVars, tasks>>

\* socketInstance.on('disconnect', reason): after "io server disconnect" the
\* library does not reconnect by itself, after any other reason it does.
OnDisconnect(serverSide) ==
    /\ sock = "connected"
    /\ sock' = IF serverSide THEN "down" ELSE "lost"
    /\ reconnected' = FALSE
    /\ reconnectDue' = FALSE
    /\ snapshotReqs' = [avail |-> 0, rooms |-> 0]
    /\ status' = "disconnected"
    /\ emitted' = <<>>
    /\ Ran("disconnect", NoRoom)
    /\ UNCHANGED <<isSharing, isViewing, roomId, urlRoom, availableCount, availableRooms,
                   peerConnectionRef, localStreamRef, pcs, streams, tasks>>
    /\ Commit

\* socketInstance.on('reconnect'): delivered once per automatic reconnection.
OnReconnect ==
    /\ sock = "connected"
    /\ reconnectDue
    /\ reconnectDue' = FALSE
    /\ snapshotReqs' = [avail |-> Counted(snapshotReqs.avail),
                        rooms |-> Counted(snapshotReqs.rooms)]
    /\ status' = "connected-to-signaling"
    /\ emitted' = SnapshotRequests
    /\ Ran("reconnect", NoRoom)
    /\ UNCHANGED <<isSharing, isViewing, roomId, urlRoom, availableCount, availableRooms,
                   peerConnectionRef, localStreamRef, pcs, streams, tasks, sock, reconnected>>
    /\ Commit

\* retrySignaling (143-148): socket.connect() opens a socket that is down and
\* does nothing to one that is connected or already connecting.
RetrySignaling ==
    /\ status' = "negotiating"
    /\ sock' = IF sock = "down" THEN "opening" ELSE sock
    /\ emitted' = <<>>
    /\ Ran("retrySignaling", NoRoom)
    /\ UNCHANGED <<isSharing, isViewing, roomId, urlRoom, availableCount, availableRooms,
                   peerConnectionRef, localStreamRef, pcs, streams, tasks,
                   reconnected, reconnectDue, snapshotReqs>>
    /\ Commit

----------------------------------------------------------------------------
\* Relay messages that only update the page (App.tsx 85-101)

\* room-created without the history.replaceState call of lines 88-90.
OnRoomCreatedKeepsUrl(r) ==
    /\ sock = "connected"
    /\ roomId' = r
    /\ emitted' = SnapshotRequests
    /\ Ran("room-created", r)
    /\ UNCHANGED <<status, isSharing, isViewing, urlRoom, availableCount, availableRooms,
                   rtcVars, relayVars, tasks>>

\* socketInstance.on('room-created', {roomId})
OnRoomCreated(r) ==
    /\ sock = "connected"
    /\ roomId' = r
    /\ urlRoom' = r
    /\ emitted' = SnapshotRequests
    /\ Ran("room-created", r)
    /\ UNCHANGED <<status, isSharing, isViewing, availableCount, availableRooms,
                   rtcVars, relayVars, tasks>>

\* socketInstance.on('available-count', {count})
OnAvailableCount(c) ==
    /\ sock = "connected"
    /\ availableCount' = c
    /\ emitted' = <<>>
    /\ Ran("available-count", NoRoom)
    /\ UNCHANGED <<status, isSharing, isViewing, roomId, urlRoom, availableRooms,
                   rtcVars, relayVars, tasks>>

\* socketInstance.on('available-rooms', {rooms})
OnAvailableRooms(rs) ==
    /\ sock = "connected"
    /\ availableRooms' = rs
    /\ emitted' = <<>>
    /\ Ran("available-rooms", NoRoom)
    /\ UNCHANGED <<status, isSharing, isViewing, roomId, urlRoom, availableCount,
                   rtcVars, relayVars, tasks>>

\* What setRoomId(data.roomId) stores, and what searchParams.set writes as the
\* 'room' parameter, when the payload has no roomId.
Undefined == "undefined"

\* socketInstance.on('room-created') on a payload object without a roomId
\* (85-93): nothing tests data.roomId before it is used.
OnRoomCreatedMalformed ==
    /\ sock = "connected"
    /\ roomId' = Undefined
    /\ urlRoom' = Undefined
    /\ emitted' = SnapshotRequests
    /\ Ran("room-created:malformed", NoRoom)
    /\ UNCHANGED <<status, isSharing, isViewing, availableCount, availableRooms,
                   rtcVars, relayVars, tasks>>

\* socketInstance.on('available-count') without a numeric count (95-97) and
\* socketInstance.on('available-rooms') without an array (99-101): the typeof
\* and Array.isArray tests skip the set.
OnSnapshotMalformed(ev) ==
    /\ sock = "connected"
    /\ ev \in {"available-count", "available-rooms"}
    /\ emitted' = <<>>
    /\ Ran("snapshot:malformed", NoRoom)
    /\ UNCHANGED <<uiVars, rtcVars, relayVars, tasks>>

\* socketInstance.on('offer' / 'answer' / 'ice-candidate') without a body
\* (113-136): with no session the handler does nothing; with one,
\* setRemoteDescription of a missing description rejects and the handler ends
\* there, and addIceCandidate of a missing candidate changes nothing.
OnNegotiationMalformed(ev) ==
    /\ sock = "connected"
    /\ ev \in {"offer", "answer", "ice-candidate"}
    /\ emitted' = <<>>
    /\ Ran("negotiation:malformed", NoRoom)
    /\ UNCHANGED <<uiVars, rtcVars, relayVars, tasks>>

\* The mount effect run again for a new roomId: its cleanup disconnects the
\* socket and io() opens another.
JoinSelectedRoomReconnects(r) ==
    /\ isViewing
    /\ status # "media-connected"
    /\ r \in availableRooms
    /\ roomId' = r
    /\ isViewing' = TRUE
    /\ status' = "negotiating"
    /\ sock' = IF roomId # r THEN "opening" ELSE sock
    /\ emitted' = <<Msg("join-view", r)>>
    /\ Ran("joinSelectedRoom", r)
    /\ UNCHANGED <<isSharing, urlRoom, availableCount, availableRooms,
                   peerConnectionRef, localStreamRef, pcs, streams, tasks,
                   reconnected, reconnectDue, snapshotReqs>>
    /\ Commit

\* The cleanup of the mount effect (138-140), run when the component
\* unmounts: socketInstance.disconnect().
Unmount ==
    /\ sock' = "closed"
    /\ emitted' = <<>>
    /\ Ran("unmount", NoRoom)
    /\ UNCHANGED <<uiVars, rtcVars, reconnected, reconnectDue, snapshotReqs, tasks>>

----------------------------------------------------------------------------
\* Transport sessions and capture (App.tsx 161-321)

\* createPeerConnection(isInitiator) (161-214): a new session in slot p whose
\* handlers close over the roomId of the render that called it; the session
\* peerConnectionRef referred to before is left as it is.
CreatePeerConnection(p, isInitiator, room) ==
    [pcs EXCEPT ![p] = [FreePc EXCEPT !.st = "open", !.init = isInitiator, !.room = room]]

\* The ref dropped without close() being called on the session.
CloseCurrentSkipped == pcs

\* peerConnectionRef.current.close() when the ref is set (278-281, 312-315).
CloseCurrent ==
    IF peerConnectionRef # 0 THEN [pcs EXCEPT ![peerConnectionRef] = ClosedPc] ELSE pcs

\* startSharing up to its await (216-241), on a page that can capture (secure,
\* top-level, with getDisplayMedia: the checks of 225-236 pass and the button
\* is enabled); the Share button shows while isSharing is false.  The stream
\* slot records the pending capture request and the roomId its continuation
\* closes over.
StartSharing ==
    /\ ~isSharing
    /\ NewStreamId # 0
    /\ streams' = [streams EXCEPT ![NewStreamId] = [st |-> "requested", room |-> roomId]]
    /\ emitted' = <<>>
    /\ Ran("startSharing", NoRoom)
    /\ UNCHANGED <<uiVars, peerConnectionRef, localStreamRef, pcs, remoteBound,
                   relayVars, tasks>>

\* startSharing with the status reset that its catch branch does (260).
StartSharingBlockedSetsIdle ==
    /\ ~isSharing
    /\ status' = "idle"
    /\ emitted' = <<>>
    /\ Ran("startSharing:blocked", NoRoom)
    /\ UNCHANGED <<isSharing, isViewing, roomId, urlRoom, availableCount, availableRooms,
                   peerConnectionRef, localStreamRef, pcs, streams, relayVars, tasks>>
    /\ Commit

\* startSharing when one of its capability checks fails at the click (218-236):
\* the page is not a secure context, not top-level, or getDisplayMedia is not
\* there; the error is logged and the function returns before the await.
StartSharingBlocked ==
    /\ ~isSharing
    /\ emitted' = <<>>
    /\ Ran("startSharing:blocked", NoRoom)
    /\ UNCHANGED <<uiVars, rtcVars, relayVars, tasks>>

\* startSharing after getDisplayMedia resolves (243-257).
CaptureGranted(i) ==
    /\ streams[i].st = "requested"
    /\ NewPcId # 0
    /\ streams' = [streams EXCEPT ![i].st = "live"]
    /\ localStreamRef' = i
    /\ isSharing' = TRUE
    /\ pcs' = [CreatePeerConnection(NewPcId, TRUE, streams[i].room)
                  EXCEPT ![NewPcId].neg = TRUE]
    /\ peerConnectionRef' = NewPcId
    /\ status' = "sharing"
    /\ emitted' = <<Msg("start-share", NoField), Msg("get-available", NoField)>>
    /\ Ran("capture-granted", NoRoom)
    /\ UNCHANGED <<isViewing, roomId, urlRoom, availableCount, availableRooms,
                   relayVars, tasks>>
    /\ Commit

\* startSharing after getDisplayMedia rejects (258-261).
CaptureRejected(i) ==
    /\ streams[i].st = "requested"
    /\ streams' = [streams EXCEPT ![i] = FreeStream]
    /\ status' = "idle"
    /\ emitted' = <<>>
    /\ Ran("capture-rejected", NoRoom)
    /\ UNCHANGED <<isSharing, isViewing, roomId, urlRoom, availableCount, availableRooms,
                   peerConnectionRef, localStreamRef, pcs, relayVars, tasks>>
    /\ Commit

\* The suspended continuations, marked as overtaken by a stopSharing or a
\* stopViewing (273-289, 311-321).
Stopped(ts) == {[t EXCEPT !.stopped = TRUE] : t \in ts}

\* stopSharing that stops the tracks but leaves localStreamRef.current set.
StopSharingBodyKeepsRef(strm) ==
    /\ streams' = IF localStreamRef # 0
                  THEN [strm EXCEPT ![localStreamRef] = FreeStream]
                  ELSE strm
    /\ localStreamRef' = localStreamRef
    /\ pcs' = CloseCurrent
    /\ peerConnectionRef' = 0
    /\ isSharing' = FALSE
    /\ status' = "idle"
    /\ emitted' = <<Msg("stop-share", NoField), Msg("get-available", NoField)>>
    /\ tasks' = Stopped(tasks)
    /\ UNCHANGED <<isViewing, roomId, urlRoom, availableCount, availableRooms,
                   relayVars>>
    /\ Commit

\* The body of stopSharing (273-289), run on the streams strm.
StopSharingBody(strm) ==
    /\ streams' = IF localStreamRef # 0
                  THEN [strm EXCEPT ![localStreamRef] = FreeStream]
                  ELSE strm
    /\ localStreamRef' = 0
    /\ pcs' = CloseCurrent
    /\ peerConnectionRef' = 0
    /\ isSharing' = FALSE
    /\ status' = "idle"
    /\ emitted' = <<Msg("stop-share", NoField), Msg("get-available", NoField)>>
    /\ tasks' = Stopped(tasks)
    /\ UNCHANGED <<isViewing, roomId, urlRoom, availableCount, availableRooms,
                   relayVars>>
    /\ Commit

\* The Stop Sharing button, shown while isSharing is true.
StopSharing ==
    /\ isSharing
    /\ StopSharingBody(streams)
    /\ Ran("stopSharing", NoRoom)

\* The track of captured stream i ends with no onended handler set on it.
TrackEndedUnhandled(i) ==
    /\ streams[i].st = "live"
    /\ streams' = [streams EXCEPT ![i] = FreeStream]
    /\ emitted' = <<>>
    /\ Ran("track-ended", NoRoom)
    /\ UNCHANGED <<uiVars, peerConnectionRef, localStreamRef, pcs, remoteBound,
                   relayVars, tasks>>

\* stream.getVideoTracks()[0].onended (251-253): the platform ended the track
\* of captured stream i, and the handler set on it runs stopSharing.
TrackEnded(i) ==
    /\ streams[i].st = "live"
    /\ StopSharingBody([streams EXCEPT ![i] = FreeStream])
    /\ Ran("track-ended", NoRoom)

\* startViewing (291-309); the View button shows while isViewing is false.
StartViewing ==
    /\ ~isViewing
    /\ NewPcId # 0
    /\ pcs' = CreatePeerConnection(NewPcId, FALSE, roomId)
    /\ peerConnectionRef' = NewPcId
    /\ isViewing' = TRUE
    /\ status' = "negotiating"
    /\ roomId' = IF urlRoom # NoRoom THEN urlRoom ELSE roomId
    /\ emitted' = IF urlRoom # NoRoom THEN <<Msg("join-view", urlRoom)>>
                  ELSE IF roomId # NoRoom THEN <<Msg("join-view", roomId)>>
                  ELSE <<Msg("get-rooms", NoField)>>
    /\ Ran("startViewing", NoRoom)
    /\ UNCHANGED <<isSharing, urlRoom, availableCount, availableRooms,
                   localStreamRef, streams, relayVars, tasks>>
    /\ Commit

\* joinSelectedRoom(id) (154-159), from a button of the room list, which shows
\* while isViewing and status is not media-connected.
JoinSelectedRoom(r) ==
    /\ isViewing
    /\ status # "media-connected"
    /\ r \in availableRooms
    /\ roomId' = r
    /\ isViewing' = TRUE
    /\ status' = "negotiating"
    /\ emitted' = <<Msg("join-view", r)>>
    /\ Ran("joinSelectedRoom", r)
    /\ UNCHANGED <<isSharing, urlRoom, availableCount, availableRooms,
                   peerConnectionRef, localStreamRef, pcs, streams, relayVars, tasks>>
    /\ Commit

\* fetchRooms (150-152), from the Refresh Rooms button, shown while isViewing.
FetchRooms ==
    /\ isViewing
    /\ emitted' = <<Msg("get-rooms", NoField)>>
    /\ Ran("fetchRooms", NoRoom)
    /\ UNCHANGED <<uiVars, rtcVars, relayVars, tasks>>

\* stopViewing (311-321), from the Stop Viewing button.
StopViewing ==
    /\ isViewing
    /\ pcs' = CloseCurrent
    /\ peerConnectionRef' = 0
    /\ isViewing' = FALSE
    /\ status' = "idle"
    /\ remoteBound' = FALSE
    /\ emitted' = <<>>
    /\ tasks' = Stopped(tasks)
    /\ Ran("stopViewing", NoRoom)
    /\ UNCHANGED <<isSharing, roomId, urlRoom, availableCount, availableRooms,
                   localStreamRef, streams, relayVars>>

----------------------------------------------------------------------------
\* Relay messages of the negotiation (App.tsx 103-136).  The handlers are
\* registered by the mount effect, whose dependency list is empty (141), so
\* the roomId they read is the one of the first render.

MountRoomId == NoRoom

\* A suspended continuation: its handler, the await it is at, the session the
\* awaited call was made on, the session that made the description it holds,
\* and whether stopSharing or stopViewing has run since the handler started.
Task(h, step, p, made) ==
    [h |-> h, step |-> step, pc |-> p, made |-> made, stopped |-> FALSE]

\* A handler suspends at an await (within the bound on suspended handlers).
Suspend(t) ==
    /\ Cardinality(tasks) < MaxTask
    /\ t \notin tasks
    /\ tasks' = tasks \cup {t}

\* A continuation t reaches its next await as t2.
Resume(t, t2) ==
    /\ [t2 EXCEPT !.stopped = t.stopped] \notin tasks \ {t}
    /\ tasks' = (tasks \ {t}) \cup {[t2 EXCEPT !.stopped = t.stopped]}

IsOpen(p) == p # 0 /\ pcs[p].st = "open"

\* A continuation that ends without effect: the awaited call rejected, or
\* peerConnectionRef.current was null when the next call was made on it.
Abandon(t, why) ==
    /\ tasks' = tasks \ {t}
    /\ emitted' = <<>>
    /\ Ran(why, NoRoom)
    /\ UNCHANGED <<uiVars, rtcVars, relayVars>>

\* socketInstance.on('viewer-joined') up to its first await (103-107).
OnViewerJoined ==
    /\ sock = "connected"
    /\ status' = "negotiating"
    /\ IF peerConnectionRef # 0
       THEN Suspend(Task("viewer-joined", "createOffer", peerConnectionRef, 0))
       ELSE tasks' = tasks
    /\ emitted' = <<>>
    /\ Ran("viewer-joined", NoRoom)
    /\ UNCHANGED <<isSharing, isViewing, roomId, urlRoom, availableCount, availableRooms,
                   peerConnectionRef, localStreamRef, pcs, streams, relayVars>>
    /\ Commit

\* viewer-joined after createOffer settles: setLocalDescription is called on
\* whatever peerConnectionRef.current is by then (108).
ViewerJoinedOfferCreated(t) ==
    /\ t \in tasks /\ t.h = "viewer-joined" /\ t.step = "createOffer"
    /\ IF ~IsOpen(t.pc) \/ peerConnectionRef = 0
       THEN Abandon(t, "viewer-joined:abandoned")
       ELSE /\ Resume(t, Task("viewer-joined", "setLocal", peerConnectionRef, t.pc))
            /\ emitted' = <<>>
            /\ Ran("viewer-joined:createOffer", NoRoom)
            /\ UNCHANGED <<uiVars, rtcVars, relayVars>>

\* setLocalDescription(offer) succeeds on an open session that made the offer
\* and holds no remote offer.
LocalOfferApplies(p, made) ==
    IsOpen(p) /\ made = p /\ pcs[p].sig # "have-remote-offer"

\* viewer-joined after setLocalDescription settles: the offer is sent (109).
ViewerJoinedLocalSet(t) ==
    /\ t \in tasks /\ t.h = "viewer-joined" /\ t.step = "setLocal"
    /\ IF ~LocalOfferApplies(t.pc, t.made)
       THEN Abandon(t, "viewer-joined:abandoned")
       ELSE /\ tasks' = tasks \ {t}
            /\ pcs' = [pcs EXCEPT ![t.pc].sig = "have-local-offer"]
            /\ emitted' = <<Msg("offer", MountRoomId)>>
            /\ Ran("viewer-joined:offer", NoRoom)
            /\ UNCHANGED <<uiVars, peerConnectionRef, localStreamRef, streams,
                           remoteBound, relayVars>>

\* socketInstance.on('offer') up to its first await (113-116).
OnOffer ==
    /\ sock = "connected"
    /\ IF peerConnectionRef # 0
       THEN Suspend(Task("offer", "setRemote", peerConnectionRef, 0))
       ELSE tasks' = tasks
    /\ emitted' = <<>>
    /\ Ran("offer", NoRoom)
    /\ UNCHANGED <<uiVars, rtcVars, relayVars>>

\* offer after setRemoteDescription settles: createAnswer is called on the
\* current peerConnectionRef.current (117).
OfferRemoteSet(t) ==
    /\ t \in tasks /\ t.h = "offer" /\ t.step = "setRemote"
    /\ IF ~IsOpen(t.pc)
       THEN Abandon(t, "offer:abandoned")
       ELSE /\ pcs' = [pcs EXCEPT ![t.pc].sig = "have-remote-offer"]
            /\ IF peerConnectionRef = 0
               THEN tasks' = tasks \ {t}
               ELSE Resume(t, Task("offer", "createAnswer", peerConnectionRef, 0))
            /\ emitted' = <<>>
            /\ Ran("offer:setRemote", NoRoom)
            /\ UNCHANGED <<uiVars, peerConnectionRef, localStreamRef, streams,
                           remoteBound, relayVars>>

\* offer after createAnswer settles (118): createAnswer needs a remote offer.
OfferAnswerCreated(t) ==
    /\ t \in tasks /\ t.h = "offer" /\ t.step = "createAnswer"
    /\ IF ~IsOpen(t.pc) \/ pcs[t.pc].sig # "have-remote-offer" \/ peerConnectionRef = 0
       THEN Abandon(t, "offer:abandoned")
       ELSE /\ Resume(t, Task("offer", "setLocal", peerConnectionRef, t.pc))
            /\ emitted' = <<>>
            /\ Ran("offer:createAnswer", NoRoom)
            /\ UNCHANGED <<uiVars, rtcVars, relayVars>>

\* offer after setLocalDescription(answer) settles: the answer is sent (119).
OfferLocalSet(t) ==
    /\ t \in tasks /\ t.h = "offer" /\ t.step = "setLocal"
    /\ IF ~IsOpen(t.pc) \/ t.made # t.pc \/ pcs[t.pc].sig # "have-remote-offer"
       THEN Abandon(t, "offer:abandoned")
       ELSE /\ tasks' = tasks \ {t}
            /\ pcs' = [pcs EXCEPT ![t.pc].sig = "stable"]
            /\ emitted' = <<Msg("answer", MountRoomId)>>
            /\ Ran("offer:answer", NoRoom)
            /\ UNCHANGED <<uiVars, peerConnectionRef, localStreamRef, streams,
                           remoteBound, relayVars>>

\* The answer handler with setStatus('media-connected') outside its test of
\* peerConnectionRef.current.
OnAnswerUngated ==
    /\ sock = "connected"
    /\ IF peerConnectionRef # 0
       THEN Suspend(Task("answer", "setRemote", peerConnectionRef, 0)) /\ status' = status
       ELSE tasks' = tasks /\ status' = "media-connected"
    /\ emitted' = <<>>
    /\ Ran("answer", NoRoom)
    /\ UNCHANGED <<isSharing, isViewing, roomId, urlRoom, availableCount, availableRooms,
                   peerConnectionRef, localStreamRef, pcs, streams, relayVars>>
    /\ Commit

\* socketInstance.on('answer') up to its await (123-126).
OnAnswer ==
    /\ sock = "connected"
    /\ IF peerConnectionRef # 0
       THEN Suspend(Task("answer", "setRemote", peerConnectionRef, 0))
       ELSE tasks' = tasks
    /\ emitted' = <<>>
    /\ Ran("answer", NoRoom)
    /\ UNCHANGED <<uiVars, rtcVars, relayVars>>

\* answer after setRemoteDescription settles (127): an answer applies to a
\* session that holds a local offer.
AnswerRemoteSet(t) ==
    /\ t \in tasks /\ t.h = "answer" /\ t.step = "setRemote"
    /\ IF ~IsOpen(t.pc) \/ pcs[t.pc].sig # "have-local-offer"
       THEN Abandon(t, "answer:abandoned")
       ELSE /\ tasks' = tasks \ {t}
            /\ pcs' = [pcs EXCEPT ![t.pc].sig = "stable"]
            /\ status' = "media-connected"
            /\ emitted' = <<>>
            /\ Ran("answer:setRemote", NoRoom)
            /\ UNCHANGED <<isSharing, isViewing, roomId, urlRoom, availableCount,
                           availableRooms, peerConnectionRef, localStreamRef, streams,
                           relayVars>>
            /\ Commit

\* socketInstance.on('ice-candidate') (131-136): nothing follows the await.
OnIceCandidate ==
    /\ sock = "connected"
    /\ emitted' = <<>>
    /\ Ran("ice-candidate", NoRoom)
    /\ UNCHANGED <<uiVars, rtcVars, relayVars, tasks>>

----------------------------------------------------------------------------
\* Events of a transport session (App.tsx 168-210).  The handlers belong to
\* the session object, so they also run for a session that is still open but
\* that peerConnectionRef no longer refers to.

\* peerConnection.onnegotiationneeded up to its first await (201-203), set on
\* an initiator and due once its tracks are added.
OnNegotiationNeeded(p) ==
    /\ IsOpen(p) /\ pcs[p].init /\ pcs[p].neg
    /\ Suspend(Task("negotiationneeded", "createOffer", p, 0))
    /\ pcs' = [pcs EXCEPT ![p].neg = FALSE]
    /\ emitted' = <<>>
    /\ Ran("negotiationneeded", NoRoom)
    /\ UNCHANGED <<uiVars, peerConnectionRef, localStreamRef, streams, remoteBound,
                   relayVars>>

\* negotiationneeded after createOffer settles (204); a rejection is caught (208).
NegotiationOfferCreated(t) ==
    /\ t \in tasks /\ t.h = "negotiationneeded" /\ t.step = "createOffer"
    /\ IF ~IsOpen(t.pc)
       THEN Abandon(t, "negotiationneeded:caught")
       ELSE /\ Resume(t, Task("negotiationneeded", "setLocal", t.pc, t.pc))
            /\ emitted' = <<>>
            /\ Ran("negotiationneeded:createOffer", NoRoom)
            /\ UNCHANGED <<uiVars, rtcVars, relayVars>>

\* negotiationneeded after setLocalDescription settles: the offer is sent with
\* the roomId the session's handlers closed over (205-207).
NegotiationLocalSet(t) ==
    /\ t \in tasks /\ t.h = "negotiationneeded" /\ t.step = "setLocal"
    /\ IF ~LocalOfferApplies(t.pc, t.made)
       THEN Abandon(t, "negotiationneeded:caught")
       ELSE /\ tasks' = tasks \ {t}
            /\ pcs' = [pcs EXCEPT ![t.pc].sig = "have-local-offer"]
            /\ emitted' = <<Msg("offer", pcs[t.pc].room)>>
            /\ Ran("negotiationneeded:offer", NoRoom)
            /\ UNCHANGED <<uiVars, peerConnectionRef, localStreamRef, streams,
                           remoteBound, relayVars>>

\* peerConnection.onicecandidate with a candidate (168-172): candidates are
\* gathered once a local description is set.
OnLocalCandidate(p) ==
    /\ IsOpen(p) /\ pcs[p].sig \in {"have-local-offer", "stable"}
    /\ emitted' = <<Msg("ice-candidate", pcs[p].room)>>
    /\ Ran("icecandidate", NoRoom)
    /\ UNCHANGED <<uiVars, rtcVars, relayVars, tasks>>

\* peerConnection.ontrack (175-183), set on a non-initiator: an inbound track
\* arrives once a remote description is applied.  remoteVideoRef.current is
\* the element of the last commit.
OnTrack(p) ==
    /\ IsOpen(p) /\ ~pcs[p].init /\ ~pcs[p].track
    /\ pcs[p].sig \in {"have-remote-offer", "stable"}
    /\ pcs' = [pcs EXCEPT ![p].track = TRUE]
    /\ IF RemoteRendered(isViewing, status)
       THEN remoteBound' = TRUE /\ status' = "media-connected"
       ELSE UNCHANGED <<remoteBound, status>>
    /\ emitted' = <<>>
    /\ Ran("track", NoRoom)
    /\ UNCHANGED <<isSharing, isViewing, roomId, urlRoom, availableCount, availableRooms,
                   peerConnectionRef, localStreamRef, streams, relayVars, tasks>>

\* The transport states that can follow the session's current one: checks
\* start once a description is set, and succeed once both are.
StateSucc(p) ==
    CASE pcs[p].conn = "new" ->
            IF pcs[p].sig # "new" THEN {"checking"} ELSE {}
      [] pcs[p].conn = "checking" ->
            (IF pcs[p].sig = "stable" THEN {"connected"} ELSE {}) \cup {"failed"}
      [] pcs[p].conn = "connected" -> {"disconnected"}
      [] pcs[p].conn = "disconnected" -> {"connected", "failed"}
      [] OTHER -> {}

\* peerConnection.oniceconnectionstatechange (193-198) on iceConnectionState.
IceStateHandler(state, old) ==
    IF state = "connected" THEN "media-connected"
    ELSE IF state = "checking" THEN "negotiating"
    ELSE IF state \in {"failed", "disconnected"} THEN "disconnected"
    ELSE old

\* The connectionState that goes with an iceConnectionState.
ConnOf(ice) == IF ice = "checking" THEN "connecting" ELSE ice

\* onconnectionstatechange with lost connectivity shown as a negotiation.
ConnStateHandlerRetrying(state, old) ==
    IF state = "connected" THEN "media-connected"
    ELSE IF state \in {"disconnected", "failed", "connecting"} THEN "negotiating"
    ELSE old

\* peerConnection.onconnectionstatechange (186-191) on connectionState.
ConnStateHandler(state, old) ==
    IF state = "connected" THEN "media-connected"
    ELSE IF state \in {"disconnected", "failed"} THEN "disconnected"
    ELSE IF state = "connecting" THEN "negotiating"
    ELSE old

\* The transport of session p changes state: the platform reports it as the
\* iceConnectionState and then as the connectionState (pcs[p].conn keeps the
\* ICE name of the state), and both handlers run.
OnTransportStateChange(p, s) ==
    /\ IsOpen(p)
    /\ s \in StateSucc(p)
    /\ pcs' = [pcs EXCEPT ![p].conn = s]
    /\ status' = ConnStateHandler(ConnOf(s), IceStateHandler(s, status))
    /\ emitted' = <<>>
    /\ Ran("transport-state", NoRoom)
    /\ UNCHANGED <<isSharing, isViewing, roomId, urlRoom, availableCount, availableRooms,
                   peerConnectionRef, localStreamRef, streams, relayVars, tasks>>
    /\ Commit

----------------------------------------------------------------------------
\* The specification

Next ==
    \/ OnConnect
    \/ OnConnectError
    \/ OnConnectTimeout
    \/ OnReconnectAttempt
    \/ OnReconnectError
    \/ \E serverSide \in BOOLEAN : OnDisconnect(serverSide)
    \/ OnReconnect
    \/ RetrySignaling
    \/ \E r \in Rooms : OnRoomCreated(r)
    \/ \E c \in Counts : OnAvailableCount(c)
    \/ \E rs \in SUBSET Rooms : OnAvailableRooms(rs)
    \/ StartSharing
    \/ StartSharingBlocked
    \/ \E i \in StreamIds : CaptureGranted(i)
    \/ \E i \in StreamIds : CaptureRejected(i)
    \/ StopSharing
    \/ \E i \in StreamIds : TrackEnded(i)
    \/ StartViewing
    \/ \E r \in Rooms : JoinSelectedRoom(r)
    \/ FetchRooms
    \/ StopViewing
    \/ OnViewerJoined
    \/ \E t \in tasks : ViewerJoinedOfferCreated(t)
    \/ \E t \in tasks : ViewerJoinedLocalSet(t)
    \/ OnOffer
    \/ \E t \in tasks : OfferRemoteSet(t)
    \/ \E t \in tasks : OfferAnswerCreated(t)
    \/ \E t \in tasks : OfferLocalSet(t)
    \/ OnAnswer
    \/ \E t \in tasks : AnswerRemoteSet(t)
    \/ OnIceCandidate
    \/ \E p \in PcIds : OnNegotiationNeeded(p)
    \/ \E t \in tasks : NegotiationOfferCreated(t)
    \/ \E t \in tasks : NegotiationLocalSet(t)
    \/ \E p \in PcIds : OnLocalCandidate(p)
    \/ \E p \in PcIds : OnTrack(p)
    \/ \E p \in PcIds, s \in {"checking", "connected", "disconnected", "failed"} :
          OnTransportStateChange(p, s)

Spec == Init /\ [][Next]_vars

\* The same component in an environment that also delivers relay payloads
\* that are not well formed and that may unmount the component.
FullNext ==
    \/ Next
    \/ OnRoomCreatedMalformed
    \/ \E ev \in {"available-count", "available-rooms"} : OnSnapshotMalformed(ev)
    \/ \E ev \in {"offer", "answer", "ice-candidate"} : OnNegotiationMalformed(ev)
    \/ Unmount

FullSpec == Init /\ [][FullNext]_vars

----------------------------------------------------------------------------
\* Properties

Sent(ev) == \E k \in 1..Len(emitted) : emitted[k].ev = ev

\* C1: at most one captured local media source is open (granted and not
\* stopped) at any time, and after stopSharing has run, from the button or
\* from the track-ended callback, no captured source remains open.
C1_AtMostOneOpenSource ==
    /\ Cardinality(LiveStreams) <= 1
    /\ last.op \in {"stopSharing", "track-ended"} => LiveStreams = {}

\* C2: at most one transport session that was created and is not yet closed
\* exists in the tab.
C2_AtMostOneOpenSession == Cardinality(OpenPcs) <= 1

\* C3: when startViewing runs while peerConnectionRef refers to a session, that
\* prior session is closed by the time the new session exists.
C3_ViewClosesPriorSession ==
    [][(StartViewing /\ peerConnectionRef # 0)
          => pcs'[peerConnectionRef].st = "closed"]_vars

\* C4: status becomes media-connected only in the step in which a transport
\* session reports the connected state.
C4_MediaConnectedOnlyOnTransportConnected ==
    [][(status # "media-connected" /\ status' = "media-connected")
          => \E p \in PcIds : OnTransportStateChange(p, "connected")]_vars

\* C5: between handlers, a local media source is held if and only if the tab
\* is sharing and status is sharing, negotiating or media-connected.
C5_LocalSourceIffSharerStatus ==
    (localStreamRef # 0)
        <=> (isSharing /\ status \in {"sharing", "negotiating", "media-connected"})

\* C6: every relay message sent with a roomId field carries a room identifier
\* that is set (non-empty) and equal to the current room identifier.
C6_RoomIdSetWhenSent ==
    \A k \in 1..Len(emitted) :
        emitted[k].roomId # NoField
            => emitted[k].roomId # NoRoom /\ emitted[k].roomId = roomId

\* C7: for a viewer whose session has received an offer, sent its answer and
\* got an inbound track, once the transport reports connected the remote video
\* surface is bound to the inbound stream and status is media-connected.
C7_ViewerBoundWhenConnected ==
    (/\ last.op = "transport-state"
     /\ isViewing /\ ~isSharing
     /\ IsOpen(peerConnectionRef)
     /\ ~pcs[peerConnectionRef].init
     /\ pcs[peerConnectionRef].sig = "stable"
     /\ pcs[peerConnectionRef].track
     /\ pcs[peerConnectionRef].conn = "connected")
        => (remoteBound /\ status = "media-connected")

C9_RoomCreatedUpdates ==
    last.op = "room-created"
        => roomId = last.room /\ urlRoom = last.room /\ Sent("get-rooms")

\* C9 witness: room-created arrived while sharing, for a share started before
\* any room identifier was known.
C9_Witness ==
    /\ last.op = "room-created"
    /\ isSharing /\ status = "sharing"
    /\ IsOpen(peerConnectionRef) /\ pcs[peerConnectionRef].room = NoRoom
    /\ roomId = "r1" /\ urlRoom = "r1"

\* C10: after the capture request of startSharing is rejected, status is idle,
\* no local media source is held, isSharing is false and no start-share was
\* sent.
C10_RejectedCaptureLeavesIdle ==
    last.op = "capture-rejected"
        => /\ status = "idle"
           /\ localStreamRef = 0
           /\ ~isSharing
           /\ ~Sent("start-share")

C12_TrackEndedStopsShare ==
    [][\A i \in StreamIds :
          TrackEnded(i)
          => /\ streams'[i].st # "live"
             /\ (localStreamRef # 0 => streams'[localStreamRef].st # "live")
             /\ localStreamRef' = 0
             /\ (peerConnectionRef # 0 => pcs'[peerConnectionRef].st = "closed")
             /\ peerConnectionRef' = 0
             /\ ~isSharing'
             /\ status' = "idle"
             /\ \E k \in 1..Len(emitted') : emitted'[k].ev = "stop-share"]_vars

\* C12 witness: the track of the one share ended and the stop path has run
\* on it: the session the share had is closed and nothing is live.
C12_Witness ==
    /\ last.op = "track-ended"
    /\ Sent("stop-share")
    /\ status = "idle" /\ ~isSharing
    /\ localStreamRef = 0 /\ peerConnectionRef = 0
    /\ LiveStreams = {} /\ OpenPcs = {}
    /\ \E p \in PcIds : pcs[p].st = "closed"

\* The steps in which the user's start-share or start-view takes effect.
UserStart == StartSharing \/ StartViewing \/ \E i \in StreamIds : CaptureGranted(i)

OfferSent == \E k \in 1..Len(emitted') : emitted'[k].ev = "offer"

OfferBegun == \E t \in tasks' \ tasks : t.step = "createOffer" /\ ~t.stopped

TransportLost == {"failed", "disconnected"}

\* C13 (as claimed): a report of failed or disconnected sets status to
\* disconnected, and while the session the tab references is failed or
\* disconnected no session is created, no offer is begun and none is sent,
\* except by the user's start-share or start-view.
C13_NoOfferUntilUserStarts ==
    [][/\ \A p \in PcIds : \A s \in TransportLost :
             OnTransportStateChange(p, s) => status' = "disconnected"
       /\ (/\ peerConnectionRef # 0
           /\ pcs[peerConnectionRef].conn \in TransportLost
           /\ ~UserStart)
          => (OpenPcs' \subseteq OpenPcs /\ ~OfferBegun /\ ~OfferSent)]_vars

\* C13 (amended): a report of failed or disconnected sets status to
\* disconnected and starts nothing itself; a session is created only by the
\* user's start-share or start-view; an offer is begun only by the
\* viewer-joined and negotiationneeded handlers and sent only by their
\* continuations.
C13_FailureStartsNothing ==
    [][/\ \A p \in PcIds : \A s \in TransportLost :
             OnTransportStateChange(p, s)
             => /\ status' = "disconnected"
                /\ tasks' = tasks /\ emitted' = <<>>
                /\ OpenPcs' = OpenPcs
                /\ peerConnectionRef' = peerConnectionRef
       /\ ~(OpenPcs' \subseteq OpenPcs)
             => (StartViewing \/ \E i \in StreamIds : CaptureGranted(i))
       /\ OfferBegun => (OnViewerJoined \/ \E p \in PcIds : OnNegotiationNeeded(p))
       /\ OfferSent => \E t \in tasks : ViewerJoinedLocalSet(t) \/ NegotiationLocalSet(t)]_vars

\* C13 witness: the session the tab references has reported failed or
\* disconnected and status shows it.
C13_Witness ==
    /\ last.op = "transport-state"
    /\ peerConnectionRef # 0
    /\ pcs[peerConnectionRef].conn \in TransportLost
    /\ status = "disconnected"

\* C14: an explicit retry from status disconnected eventually leads status to
\* connected-to-signaling.  Only the connect and reconnect handlers set that
\* status, so in its finite form: a retry taken while status is disconnected
\* leaves the relay connection still being established, or a reconnect event
\* still to be delivered, and never leaves status at negotiating over a
\* connection that is already up.
C14_RetryLeadsToSignaling ==
    [][(RetrySignaling /\ status = "disconnected")
          => \/ sock' \in {"opening", "lost"}
             \/ (sock' = "connected" /\ reconnectDue')]_vars

\* A relay payload that is not well formed was handled.
MalformedStep ==
    \/ OnRoomCreatedMalformed
    \/ \E ev \in {"available-count", "available-rooms"} : OnSnapshotMalformed(ev)
    \/ \E ev \in {"offer", "answer", "ice-candidate"} : OnNegotiationMalformed(ev)

\* C15: a malformed relay payload on a subscribed event is ignored: status,
\* room identifier, available count and rooms, role flags and the transport
\* session are unchanged and nothing is emitted.
C15_MalformedIgnored ==
    [][MalformedStep
          => /\ UNCHANGED <<status, roomId, urlRoom, availableCount, availableRooms,
                            isSharing, isViewing>>
             /\ UNCHANGED <<peerConnectionRef, pcs, tasks>>
             /\ emitted' = <<>>]_vars

\* The user's share and view operations.
UserOp ==
    \/ StartSharing \/ StartSharingBlocked
    \/ \E i \in StreamIds : CaptureGranted(i) \/ CaptureRejected(i) \/ TrackEnded(i)
    \/ StopSharing \/ StartViewing \/ StopViewing
    \/ \E r \in Rooms : JoinSelectedRoom(r)

\* C16: the relay connection is made once: no share or view operation and no
\* change of roomId disconnects, closes or re-opens it, and it is closed only
\* by the unmount.
C16_RelayConnectionKept ==
    [][/\ (UserOp \/ roomId' # roomId) => sock' = sock
       /\ (sock' = "closed" /\ sock # "closed") => Unmount]_vars

\* C16 witness: a room was joined from the list, which changed roomId, and
\* the relay connection is still connected.
C16_Witness ==
    /\ last.op = "joinSelectedRoom"
    /\ roomId = last.room /\ urlRoom # roomId
    /\ isViewing
    /\ sock = "connected"

\* C17: a role started while the other role is active first releases the
\* other role's resources: startViewing while sharing closes the share's
\* session and stops and clears its local media source, startSharing's
\* continuation while viewing closes the view's session; so when the tab
\* holds both a local media source and a session, the session is the share's.
C17_RoleSwitchReleasesFirst ==
    [][/\ (StartViewing /\ isSharing)
          => /\ peerConnectionRef # 0 => pcs'[peerConnectionRef].st = "closed"
             /\ localStreamRef' = 0 /\ LiveStreams' = {}
       /\ \A i \in StreamIds :
             (CaptureGranted(i) /\ isViewing)
             => (peerConnectionRef # 0 => pcs'[peerConnectionRef].st = "closed")
       /\ (localStreamRef' # 0 /\ peerConnectionRef' # 0)
          => pcs'[peerConnectionRef'].init]_vars

\* C18: after the user stops a share or a view, from any state, status is
\* idle, peerConnectionRef is null and the session it referred to is closed,
\* and the flag of the stopped role is false.
C18_StopResetsTab ==
    [][/\ (StopSharing \/ StopViewing)
          => /\ status' = "idle"
             /\ peerConnectionRef' = 0
             /\ peerConnectionRef # 0 => pcs'[peerConnectionRef].st = "closed"
       /\ StopSharing => ~isSharing'
       /\ StopViewing => ~isViewing']_vars

\* C18 witness: a view whose session was negotiating or connected was
\* stopped: the session is closed and the tab is back to idle.
C18_Witness ==
    /\ last.op = "stopViewing"
    /\ status = "idle" /\ ~isViewing
    /\ peerConnectionRef = 0
    /\ \E p \in PcIds : pcs[p].st = "closed"

\* C19: an offer, answer or ice-candidate message that arrives while
\* peerConnectionRef is null leaves status, the role flags, the room
\* identifier and every resource unchanged, starts no continuation and emits
\* nothing.
C19_NoSessionNoEffect ==
    [][((OnOffer \/ OnAnswer \/ OnIceCandidate) /\ peerConnectionRef = 0)
          => /\ UNCHANGED <<status, isSharing, isViewing, roomId, urlRoom>>
             /\ UNCHANGED <<peerConnectionRef, localStreamRef, pcs, streams, remoteBound>>
             /\ tasks' = tasks
             /\ emitted' = <<>>]_vars

\* C19 witness: an answer was delivered to a tab that has no session.
C19_Witness ==
    /\ last.op = "answer"
    /\ peerConnectionRef = 0
    /\ tasks = {}
    /\ status = "connected-to-signaling"

\* A continuation of the viewer-joined, offer or answer handler runs.
Continues(t) ==
    \/ ViewerJoinedOfferCreated(t) \/ ViewerJoinedLocalSet(t)
    \/ OfferRemoteSet(t) \/ OfferAnswerCreated(t) \/ OfferLocalSet(t)
    \/ AnswerRemoteSet(t)

\* C20: when stopSharing or stopViewing has run while a viewer-joined, offer
\* or answer handler was suspended at an await, the handler's continuation
\* ends there: it changes no session, makes no further call on one, emits
\* nothing and leaves status as it is.
C20_StoppedWorkDiscarded ==
    [][\A t \in tasks :
          (t.stopped /\ Continues(t))
          => /\ tasks' = tasks \ {t}
             /\ pcs' = pcs
             /\ status' = status
             /\ emitted' = <<>>]_vars

\* C21: between handlers, isSharing is true if and only if a local media
\* source is held (localStreamRef is not null), whatever the interleaving of
\* share and view starts and stops and of relay and transport events.
C21_SharingIffSourceHeld == isSharing <=> (localStreamRef # 0)

\* C21 witness: a view was started and stopped while a share was active, and
\* the share's source is still held with isSharing true.
C21_Witness ==
    /\ last.op = "stopViewing"
    /\ isSharing /\ localStreamRef # 0
    /\ streams[localStreamRef].st = "live"

\* C22: between handlers, an active role has a usable session: while isViewing
\* or isSharing is true peerConnectionRef refers to an open session, and a
\* join-view is sent only from a tab whose peerConnectionRef does.
C22_ActiveRoleHasSession ==
    /\ (isViewing \/ isSharing) => IsOpen(peerConnectionRef)
    /\ Sent("join-view") => IsOpen(peerConnectionRef)

====
